---- MODULE Spec2Model ----
(***************************************************************************)
(* HTTP middleware of wrapp-archive/httplib                                *)
(*                                                                         *)
(*   ValidateJSONSchema  the JSON-schema validation gate, in the three     *)
(*                       revisions the sources hold:                       *)
(*        "early"      src/validate.go            stops at the first       *)
(*                                                schema-invalid document  *)
(*        "aggregate"  src/unnamed/part_001:41-101  collects every result  *)
(*        "single"     src/unnamed/part_001:138-165 one document per body  *)
(*   loggedResponse, Recover, LogRequest, RunHTTP  the logging / recovery  *)
(*                       chain, in the revisions                           *)
(*        "web"        src/web.go                                          *)
(*        "httplib"    src/unnamed/part_000:1-116                          *)
(*        "gowrapp"    src/unnamed/part_000:118-220                        *)
(*                                                                         *)
(* A request body is a sequence of chunks; a chunk stands for the bytes of *)
(* one top-level JSON value, of a run of white space, or of a stretch that *)
(* is not JSON.  Two bodies are byte-for-byte equal iff they are the same  *)
(* sequence of chunks.                                                     *)
(***************************************************************************)
EXTENDS Integers, Sequences, FiniteSets, TLC

VARIABLES
    \* ---- validation gate ----
    impl,         \* revision of ValidateJSONSchema in use
    nullVerdict,  \* what the compiled schema says of the JSON value null
    gpc,          \* position of the gate: "idle", "read", "loop", "done"
                  \* ("off" while the logging chain is studied)
    body,         \* bytes of the request body on the wire
    readFails,    \* whether reading r.Body fails (transport error)
    rbody,        \* r.Body: a reader [data, pos]
    buf,          \* buf: the bytes ioutil.ReadAll returned
    bufReader,    \* bufReader: the reader the decoder drains
    dec,          \* dec: the json.Decoder [pos, err]
    turns,        \* turns of the decode loop so far, modulo 2
    validationErrorCount,  \* part_001:57
    validationResults,     \* part_001:58
    w,            \* the gate's http.ResponseWriter
    report,       \* validation results serialised into the response body
    responses,    \* error responses the gate has started (saturating)
    validated,    \* the values handed to schema.Validate, in order
    engineFailed, \* schema.Validate returned an error
    afterError,   \* schema.Validate was called after an error response
    handlerCalls, \* calls of next.ServeHTTP
    handlerSaw,   \* what next read from r.Body, start to end
    \* ---- logging / recovery chain ----
    wimpl,        \* revision of web.go in use
    wpc,          \* "idle", "running", "served", "aborted"
                  \* ("off" while the gate is studied)
    stack,        \* the handlers whose ServeHTTP is active, outermost first
    entered,      \* the order in which the request entered them
    lw,           \* the loggedResponse of this request
    rw,           \* the server's http.ResponseWriter of this request
    reqBody,      \* r.Body of this request
    logs,         \* records handed to the logger for this request
    ops,          \* writer calls the application handler has made
    first,        \* status fixed by the handler's first writer call
    panicked,     \* the application handler panicked
    sentAtPanic,  \* status already sent when it panicked (0: none)
    handlerCaught,\* who stopped the handler's panic
    logFault,     \* the logging wrapper panicked
    logCaught,    \* who stopped the logging wrapper's panic
    prevPanicked  \* the previous request's handler panicked

gateVars == <<impl, nullVerdict, gpc, body, readFails, rbody, buf, bufReader,
              dec, turns, validationErrorCount, validationResults, w, report,
              responses, validated, engineFailed, afterError, handlerCalls,
              handlerSaw>>
webVars == <<wimpl, wpc, stack, entered, lw, rw, reqBody, logs, ops, first,
             panicked, sentAtPanic, handlerCaught, logFault, logCaught,
             prevPanicked>>
vars == <<gateVars, webVars>>

----------------------------------------------------------------------------
(* Bounds *)

MaxBody == 3        \* chunks in a request body
MaxOps == 3         \* writer calls of the application handler per request
MaxSlice == 2       \* bytes in one slice the application handler writes
\* where the counters of a runaway loop saturate: above every count a
\* request that ends can reach
MaxCount == MaxBody + MaxOps * MaxSlice + 3

Sat(n) == IF n > MaxCount THEN MaxCount ELSE n

AppendCapped(s, e) == IF Len(s) < MaxCount THEN Append(s, e) ELSE s

----------------------------------------------------------------------------
(* net/http status codes *)

StatusOK == 200
StatusBadRequest == 400
StatusInternalServerError == 500

----------------------------------------------------------------------------
(* Request bodies *)

\* "ok"   a JSON value the schema accepts
\* "bad"  a JSON value the schema rejects
\* "null" the JSON value null
\* "boom" a JSON value on which the schema engine itself fails
\* "ws"   white space between values
\* "junk" bytes that are not JSON (malformed or truncated)
Chunks == {"ok", "bad", "null", "boom", "ws", "junk"}
Values == {"ok", "bad", "null", "boom"}

RECURSIVE SeqsUpTo(_, _)
SeqsUpTo(S, n) ==
    IF n = 0 THEN {<<>>}
    ELSE LET shorter == SeqsUpTo(S, n - 1)
         IN  shorter \cup {Append(s, x) : s \in {t \in shorter : Len(t) = n - 1}, x \in S}

Bodies == SeqsUpTo(Chunks, MaxBody)

\* bytes.NewReader(b)
NewReader(b) == [data |-> b, pos |-> 0]

\* ioutil.ReadAll(r): the bytes from the reader's position to its end
ReadAll(r) == SubSeq(r.data, r.pos + 1, Len(r.data))

\* the reader after ioutil.ReadAll, or after the decoder filled its buffer
Drained(r) == [r EXCEPT !.pos = Len(r.data)]

----------------------------------------------------------------------------
(* http.ResponseWriter: the first WriteHeader fixes the status, a Write    *)
(* before any WriteHeader fixes 200, later WriteHeader calls are ignored.  *)

NewResponseWriter == [status |-> 0, headerCalls |-> 0, size |-> 0]

RwWriteHeader(x, code) ==
    [x EXCEPT !.status = IF @ = 0 THEN code ELSE @,
              !.headerCalls = Sat(@ + 1)]

RwWrite(x, n) ==
    [x EXCEPT !.status = IF @ = 0 THEN StatusOK ELSE @,
              !.size = Sat(@ + n)]

\* http.Error(w, msg, code): WriteHeader(code), then the message and "\n"
HttpError(x, code) == RwWrite(RwWriteHeader(x, code), 1)

----------------------------------------------------------------------------
(* encoding/json Decoder over buf *)

NewDecoder == [pos |-> 0, err |-> "nil"]

RECURSIVE SkipSpace(_, _)
SkipSpace(b, p) ==
    IF p < Len(b) /\ b[p + 1] = "ws" THEN SkipSpace(b, p + 1) ELSE p

\* dec.Decode(&obj): [dec, err, obj].  obj is a fresh nil interface before
\* the call and stays nil ("null") when Decode fails.  A syntax error is
\* kept in the decoder: every later call returns it again.
Decode(d, b) ==
    LET p == SkipSpace(b, d.pos) IN
    IF d.err # "nil" THEN [dec |-> d, err |-> d.err, obj |-> "null"]
    ELSE IF p >= Len(b)
         THEN [dec |-> [pos |-> Len(b), err |-> "nil"], err |-> "EOF", obj |-> "null"]
    ELSE IF b[p + 1] = "junk"
         THEN [dec |-> [pos |-> p, err |-> "syntax"], err |-> "syntax", obj |-> "null"]
    ELSE [dec |-> [pos |-> p + 1, err |-> "nil"], err |-> "nil", obj |-> b[p + 1]]

\* schema.Validate(loader): "valid", "invalid", or "error" when the engine
\* itself fails
Validate(obj) ==
    CASE obj = "ok" -> "valid"
      [] obj = "bad" -> "invalid"
      [] obj = "boom" -> "error"
      [] OTHER -> nullVerdict

\* gojsonschema.NewStringLoader(string(buf)) as schema.Validate loads it:
\* the first JSON value of the string, "error" when there is none
LoadString(b) ==
    LET d == Decode(NewDecoder, b) IN
    IF d.err = "nil" THEN d.obj ELSE "error"

ValidateString(b) ==
    IF LoadString(b) = "error" THEN "error" ELSE Validate(LoadString(b))

\* ErrorValidationResult(vr) / ValidationResult{*validationResult}
ErrorValidationResult(obj) == [valid |-> Validate(obj) = "valid", doc |-> obj]

\* ValidationResult{false, []string{"Invalid JSON: ..."}}
InvalidJSONResult == [valid |-> FALSE, doc |-> "junk"]

----------------------------------------------------------------------------
(* ValidateJSONSchema *)

webIdle ==
    /\ wimpl = "none" /\ wpc = "off" /\ stack = <<>> /\ entered = <<>>
    /\ lw = [status |-> 0, size |-> 0, body |-> 0]
    /\ rw = NewResponseWriter /\ reqBody = NewReader(<<>>) /\ logs = <<>>
    /\ ops = 0 /\ first = 0 /\ panicked = FALSE /\ sentAtPanic = 0
    /\ handlerCaught = "none" /\ logFault = FALSE /\ logCaught = "none"
    /\ prevPanicked = FALSE

gateIdle ==
    /\ impl = "none" /\ nullVerdict = "valid" /\ gpc = "off"
    /\ body = <<>> /\ readFails = FALSE
    /\ rbody = NewReader(<<>>) /\ buf = <<>> /\ bufReader = NewReader(<<>>)
    /\ dec = NewDecoder /\ turns = 0
    /\ validationErrorCount = 0 /\ validationResults = <<>>
    /\ w = NewResponseWriter /\ report = <<>> /\ responses = 0
    /\ validated = <<>> /\ engineFailed = FALSE /\ afterError = FALSE
    /\ handlerCalls = 0 /\ handlerSaw = <<>>

\* a gate built by ValidateJSONSchema(path), no request yet
GateInit ==
    /\ impl \in {"early", "aggregate", "single"}
    /\ nullVerdict \in {"valid", "invalid", "error"}
    /\ gpc = "idle"
    /\ body = <<>> /\ readFails = FALSE
    /\ rbody = NewReader(<<>>) /\ buf = <<>> /\ bufReader = NewReader(<<>>)
    /\ dec = NewDecoder /\ turns = 0
    /\ validationErrorCount = 0 /\ validationResults = <<>>
    /\ w = NewResponseWriter /\ report = <<>> /\ responses = 0
    /\ validated = <<>> /\ engineFailed = FALSE /\ afterError = FALSE
    /\ handlerCalls = 0 /\ handlerSaw = <<>>
    /\ webIdle

\* the server hands the gate a request
GateRequest ==
    /\ gpc = "idle"
    /\ \E b \in Bodies, f \in BOOLEAN :
          /\ body' = b /\ readFails' = f /\ rbody' = NewReader(b)
    /\ gpc' = "read"
    /\ buf' = <<>> /\ bufReader' = NewReader(<<>>) /\ dec' = NewDecoder /\ turns' = 0
    /\ validationErrorCount' = 0 /\ validationResults' = <<>>
    /\ w' = NewResponseWriter /\ report' = <<>> /\ responses' = 0
    /\ validated' = <<>> /\ engineFailed' = FALSE /\ afterError' = FALSE
    /\ handlerCalls' = 0 /\ handlerSaw' = <<>>
    /\ UNCHANGED <<impl, nullVerdict, webVars>>

\* a gate that hands on the reader the decoder has drained
ForwardConsumedReader(b, consumed) == consumed

\* r.Body = nopCloser{bytes.NewReader(buf)}
ForwardBody(b, consumed) == NewReader(b)

\* r.Body = ...; next.ServeHTTP(w, r): the handler reads the body it is
\* given from start to end and answers with a status of its own
Forward ==
    /\ rbody' = Drained(ForwardBody(buf, Drained(bufReader)))
    /\ handlerSaw' = ReadAll(ForwardBody(buf, Drained(bufReader)))
    /\ handlerCalls' = Sat(handlerCalls + 1)
    /\ \E s \in {StatusOK, StatusInternalServerError} : w' = RwWriteHeader(w, s)
    /\ gpc' = "done"

\* buf, err := ioutil.ReadAll(r.Body), and what follows up to the loop
ReadBody ==
    /\ gpc = "read" /\ impl \in {"early", "aggregate"}
    /\ IF readFails
       THEN /\ w' = HttpError(w, StatusBadRequest)
            /\ responses' = Sat(responses + 1)
            /\ gpc' = "done"
            /\ UNCHANGED <<rbody, buf, bufReader>>
       ELSE /\ buf' = ReadAll(rbody)
            /\ rbody' = Drained(rbody)
            /\ bufReader' = NewReader(ReadAll(rbody))
            /\ gpc' = "loop"
            /\ UNCHANGED <<w, responses>>
    /\ dec' = NewDecoder
    /\ UNCHANGED <<impl, nullVerdict, body, readFails, turns, validationErrorCount,
                   validationResults, report, validated, engineFailed,
                   afterError, handlerCalls, handlerSaw, webVars>>

\* a gate that answers a schema-invalid document as a success
InvalidDocumentStatusOK == StatusOK

\* status of the answer to a schema-invalid document
InvalidDocumentStatus == StatusBadRequest

\* one turn of the loop of src/validate.go:55-74, and lines 76-77 after it
EarlyIterate ==
    /\ gpc = "loop" /\ impl = "early"
    /\ LET d == Decode(dec, buf)
           w1 == IF d.err = "nil" THEN w ELSE HttpError(w, StatusBadRequest)
           n1 == IF d.err = "nil" THEN responses ELSE Sat(responses + 1)
           v == Validate(d.obj)
       IN  /\ dec' = d.dec
           /\ turns' = (turns + 1) % 2
           /\ bufReader' = Drained(bufReader)
           /\ IF d.err = "EOF"
              THEN /\ Forward
                   /\ UNCHANGED <<responses, report, validated, engineFailed,
                                  afterError>>
              ELSE /\ validated' = AppendCapped(validated, d.obj)
                   /\ afterError' = (afterError \/ n1 > 0)
                   /\ engineFailed' = (engineFailed \/ v = "error")
                   /\ CASE v = "error" ->
                             /\ w' = HttpError(w1, StatusInternalServerError)
                             /\ responses' = Sat(n1 + 1)
                             /\ report' = report
                             /\ gpc' = "done"
                        [] v = "invalid" ->
                             /\ w' = HttpError(w1, InvalidDocumentStatus)
                             /\ responses' = Sat(n1 + 1)
                             /\ report' = Append(report, ErrorValidationResult(d.obj))
                             /\ gpc' = "done"
                        [] OTHER ->
                             /\ w' = w1
                             /\ responses' = n1
                             /\ report' = report
                             /\ gpc' = "loop"
                   /\ UNCHANGED <<rbody, handlerCalls, handlerSaw>>
    /\ UNCHANGED <<impl, nullVerdict, body, readFails, buf,
                   validationErrorCount, validationResults, webVars>>

\* w.WriteHeader(400), then every validation result and a newline
WriteReport(x, results) == RwWrite(RwWriteHeader(x, InvalidDocumentStatus), 2 * Len(results))

\* one turn of the loop of src/unnamed/part_001:60-85, and lines 87-98
AggregateIterate ==
    /\ gpc = "loop" /\ impl = "aggregate"
    /\ LET d == Decode(dec, buf)
           r1 == IF d.err = "nil" THEN validationResults
                 ELSE AppendCapped(validationResults, InvalidJSONResult)
           c1 == IF d.err = "nil" THEN validationErrorCount
                 ELSE Sat(validationErrorCount + 1)
           v == Validate(d.obj)
       IN  /\ dec' = d.dec
           /\ turns' = (turns + 1) % 2
           /\ bufReader' = Drained(bufReader)
           /\ IF d.err = "EOF"
              THEN /\ IF validationErrorCount > 0
                      THEN /\ w' = WriteReport(w, validationResults)
                           /\ report' = validationResults
                           /\ responses' = Sat(responses + 1)
                           /\ gpc' = "done"
                           /\ UNCHANGED <<rbody, handlerCalls, handlerSaw>>
                      ELSE /\ Forward
                           /\ UNCHANGED <<report, responses>>
                   /\ UNCHANGED <<validationErrorCount, validationResults,
                                  validated, engineFailed, afterError>>
              ELSE /\ validated' = AppendCapped(validated, d.obj)
                   /\ afterError' = (afterError \/ responses > 0)
                   /\ engineFailed' = (engineFailed \/ v = "error")
                   /\ IF v = "error"
                      THEN /\ w' = HttpError(w, StatusInternalServerError)
                           /\ responses' = Sat(responses + 1)
                           /\ validationErrorCount' = c1
                           /\ validationResults' = r1
                           /\ gpc' = "done"
                      ELSE /\ validationErrorCount' =
                                 IF v = "valid" THEN c1 ELSE Sat(c1 + 1)
                           /\ validationResults' =
                                 AppendCapped(r1, ErrorValidationResult(d.obj))
                           /\ gpc' = "loop"
                           /\ UNCHANGED <<w, responses>>
                   /\ UNCHANGED <<rbody, report, handlerCalls, handlerSaw>>
    /\ UNCHANGED <<impl, nullVerdict, body, readFails, buf, webVars>>

\* status of the answer to a schema.Validate error in part_001:151-155
SingleEngineErrorStatus == StatusBadRequest

\* the whole handler of src/unnamed/part_001:145-163
SingleValidate ==
    /\ gpc = "read" /\ impl = "single"
    /\ IF readFails
       THEN /\ w' = HttpError(w, StatusBadRequest)
            /\ responses' = Sat(responses + 1)
            /\ UNCHANGED <<rbody, buf, report, validated, engineFailed,
                           handlerCalls, handlerSaw>>
            /\ gpc' = "done"
       ELSE LET b == ReadAll(rbody)
                v == ValidateString(b)
            IN  /\ buf' = b
                /\ validated' = Append(validated, LoadString(b))
                /\ engineFailed' = (LoadString(b) # "error" /\ v = "error")
                /\ CASE v = "error" ->
                          /\ w' = HttpError(w, SingleEngineErrorStatus)
                          /\ responses' = Sat(responses + 1)
                          /\ rbody' = Drained(rbody)
                          /\ gpc' = "done"
                          /\ UNCHANGED <<report, handlerCalls, handlerSaw>>
                     [] v = "invalid" ->
                          /\ w' = HttpError(w, StatusBadRequest)
                          /\ responses' = Sat(responses + 1)
                          /\ report' = Append(report, ErrorValidationResult(LoadString(b)))
                          /\ rbody' = Drained(rbody)
                          /\ gpc' = "done"
                          /\ UNCHANGED <<handlerCalls, handlerSaw>>
                     [] OTHER ->
                          /\ rbody' = Drained(NewReader(b))
                          /\ handlerSaw' = ReadAll(NewReader(b))
                          /\ handlerCalls' = Sat(handlerCalls + 1)
                          /\ \E s \in {StatusOK, StatusInternalServerError} :
                                w' = RwWriteHeader(w, s)
                          /\ gpc' = "done"
                          /\ UNCHANGED <<report, responses>>
    /\ UNCHANGED <<impl, nullVerdict, body, readFails, bufReader, dec, turns,
                   validationErrorCount, validationResults, afterError, webVars>>

\* the gate's handler function has returned: the server is free again
GateReturn ==
    /\ gpc = "done"
    /\ gpc' = "idle"
    /\ body' = <<>> /\ readFails' = FALSE
    /\ rbody' = NewReader(<<>>) /\ buf' = <<>> /\ bufReader' = NewReader(<<>>)
    /\ dec' = NewDecoder /\ turns' = 0
    /\ validationErrorCount' = 0 /\ validationResults' = <<>>
    /\ w' = NewResponseWriter /\ report' = <<>> /\ responses' = 0
    /\ validated' = <<>> /\ engineFailed' = FALSE /\ afterError' = FALSE
    /\ handlerCalls' = 0 /\ handlerSaw' = <<>>
    /\ UNCHANGED <<impl, nullVerdict, webVars>>

GateNext ==
    \/ GateRequest
    \/ GateReturn
    \/ ReadBody
    \/ EarlyIterate
    \/ AggregateIterate
    \/ SingleValidate

GateSpec == GateInit /\ [][GateNext]_vars

\* a handler that has been called runs on: the loop is not suspended
GateFairSpec == GateSpec /\ WF_vars(EarlyIterate) /\ WF_vars(AggregateIterate)
                         /\ WF_vars(ReadBody) /\ WF_vars(SingleValidate)
                         /\ WF_vars(GateReturn)

----------------------------------------------------------------------------
(* loggedResponse, Recover, LogRequest, RunHTTP                            *)
(*                                                                         *)
(* A byte slice is modelled by its length.  A panic carries a non-nil      *)
(* value, so recover() in Recover's deferred function returns non-nil.     *)

Statuses == {StatusOK, StatusBadRequest, StatusInternalServerError}

\* loggedResponse{w: w, started: time.Now()}
NewLoggedResponse == [status |-> 0, size |-> 0, body |-> 0]

\* (l *loggedResponse) Write(b): [lw, rw] after the call
LwWrite(l, x, n) ==
    [lw |-> [status |-> IF l.status = 0 THEN StatusOK ELSE l.status,
             body |-> IF wimpl = "httplib" THEN l.body + n ELSE l.body,
             size |-> l.size + (RwWrite(x, n).size - x.size)],
     rw |-> RwWrite(x, n)]

\* an observer that keeps the status the first call fixed
LwWriteHeaderKeepFirst(l, x, status) ==
    [lw |-> [l EXCEPT !.status = IF @ = 0 THEN status ELSE @],
     rw |-> RwWriteHeader(x, status)]

\* (l *loggedResponse) WriteHeader(status): [lw, rw] after the call
LwWriteHeader(l, x, status) ==
    [lw |-> [l EXCEPT !.status = status],
     rw |-> RwWriteHeader(x, status)]

\* a chain that leaves panic recovery out
RunHTTPWithoutRecover == <<"LogRequest", "h">>

\* a chain with recovery outside logging
RunHTTPRecoverOutside == <<"Recover", "LogRequest", "h">>

\* RunHTTP: http.ListenAndServe(addr, LogRequest(Recover(h))), the handlers
\* from the outermost to the application handler h
RunHTTP == <<"LogRequest", "Recover", "h">>

\* whether the writer the k-th handler of the stack was given is the
\* loggedResponse (LogRequest passes &lw inwards)
Observed(st, k) == \E i \in 1..(k - 1) : st[i] = "LogRequest"

WriteVia(st, k, n) ==
    IF Observed(st, k) THEN LwWrite(lw, rw, n)
    ELSE [lw |-> lw, rw |-> RwWrite(rw, n)]

WriteHeaderVia(st, k, status) ==
    IF Observed(st, k) THEN LwWriteHeader(lw, rw, status)
    ELSE [lw |-> lw, rw |-> RwWriteHeader(rw, status)]

\* http.Error through the writer of the k-th handler
HttpErrorVia(st, k, status) ==
    LET a == WriteHeaderVia(st, k, status) IN
    IF Observed(st, k) THEN LwWrite(a.lw, a.rw, 1)
    ELSE [lw |-> a.lw, rw |-> RwWrite(a.rw, 1)]

\* the response Recover's deferred function writes once recover() is
\* non-nil: w.WriteHeader(500) in web.go and part_000:170, http.Error(w,
\* ..., 500) in part_000:67
RecoverResponse(st, k) ==
    IF wimpl = "httplib" THEN HttpErrorVia(st, k, StatusInternalServerError)
    ELSE WriteHeaderVia(st, k, StatusInternalServerError)

\* a normal return into the handlers st: Recover's deferred function finds
\* recover() nil and Recover returns too; LogRequest goes on to its logging
RECURSIVE ReturnInto(_)
ReturnInto(st) ==
    IF st # <<>> /\ st[Len(st)] = "Recover"
    THEN ReturnInto(SubSeq(st, 1, Len(st) - 1))
    ELSE st

\* the innermost Recover around the k-th handler of the stack, 0 if none
RECURSIVE RecoverAround(_, _)
RecoverAround(st, k) ==
    IF k <= 1 THEN 0
    ELSE IF st[k - 1] = "Recover" THEN k - 1
    ELSE RecoverAround(st, k - 1)

\* net/http when the outermost handler returns: a response nobody started
\* is sent with status 200
FinishRequest(x) == IF x.status = 0 THEN [x EXCEPT !.status = StatusOK] ELSE x

\* severity of the request record
Level(status) ==
    IF wimpl = "httplib"
    THEN IF status < 500 THEN "info" ELSE "error"
    ELSE IF status < 400 THEN "info" ELSE "error"

\* the record LogRequest hands to the logger
RequestRecord(l, msgBody) ==
    [kind |-> "request", status |-> l.status, size |-> l.size,
     level |-> Level(l.status), body |-> msgBody]

\* the record Recover hands to the logger
PanicRecord == [kind |-> "panic", status |-> 0, size |-> 0,
                level |-> "error", body |-> 0]

WebInit ==
    /\ wimpl \in {"web", "httplib", "gowrapp"}
    /\ wpc = "idle" /\ stack = <<>> /\ entered = <<>>
    /\ lw = NewLoggedResponse
    /\ rw = NewResponseWriter /\ reqBody = NewReader(<<>>) /\ logs = <<>>
    /\ ops = 0 /\ first = 0 /\ panicked = FALSE /\ sentAtPanic = 0
    /\ handlerCaught = "none" /\ logFault = FALSE /\ logCaught = "none"
    /\ prevPanicked = FALSE
    /\ gateIdle

\* the server calls the chain: LogRequest makes lw and calls Recover, which
\* sets its deferred function and calls h
WebServe ==
    /\ wpc \in {"idle", "served", "aborted"}
    /\ wpc' = "running"
    /\ stack' = RunHTTP /\ entered' = RunHTTP
    /\ lw' = NewLoggedResponse /\ rw' = NewResponseWriter
    /\ \E b \in {<<>>, <<"ok">>} : reqBody' = NewReader(b)
    /\ logs' = <<>> /\ ops' = 0 /\ first' = 0
    /\ panicked' = FALSE /\ sentAtPanic' = 0 /\ handlerCaught' = "none"
    /\ logFault' = FALSE /\ logCaught' = "none"
    /\ prevPanicked' = (wpc = "served" /\ panicked)
    /\ UNCHANGED <<wimpl, gateVars>>

InHandler == wpc = "running" /\ stack # <<>> /\ stack[Len(stack)] = "h"

InLogRequest == wpc = "running" /\ stack # <<>> /\ stack[Len(stack)] = "LogRequest"

\* h calls w.WriteHeader(status)
HandlerWriteHeader ==
    /\ InHandler /\ ops < MaxOps
    /\ \E status \in Statuses :
          LET a == WriteHeaderVia(stack, Len(stack), status) IN
          /\ lw' = a.lw /\ rw' = a.rw
          /\ first' = IF first = 0 THEN status ELSE first
    /\ ops' = ops + 1
    /\ UNCHANGED <<wimpl, wpc, stack, entered, reqBody, logs, panicked,
                   sentAtPanic, handlerCaught, logFault, logCaught,
                   prevPanicked, gateVars>>

\* h calls w.Write(b)
HandlerWrite ==
    /\ InHandler /\ ops < MaxOps
    /\ \E n \in 0..MaxSlice :
          LET a == WriteVia(stack, Len(stack), n) IN
          /\ lw' = a.lw /\ rw' = a.rw
    /\ first' = IF first = 0 THEN StatusOK ELSE first
    /\ ops' = ops + 1
    /\ UNCHANGED <<wimpl, wpc, stack, entered, reqBody, logs, panicked,
                   sentAtPanic, handlerCaught, logFault, logCaught,
                   prevPanicked, gateVars>>

\* h reads the request body
HandlerReadBody ==
    /\ InHandler /\ reqBody.pos < Len(reqBody.data)
    /\ reqBody' = Drained(reqBody)
    /\ UNCHANGED <<wimpl, wpc, stack, entered, lw, rw, logs, ops, first,
                   panicked, sentAtPanic, handlerCaught, logFault, logCaught,
                   prevPanicked, gateVars>>

\* control is back in the handlers st, or with the server when st is empty
Resume(st, x) ==
    /\ stack' = st
    /\ IF st = <<>>
       THEN wpc' = "served" /\ rw' = FinishRequest(x)
       ELSE wpc' = wpc /\ rw' = x

\* h returns
HandlerReturn ==
    /\ InHandler
    /\ Resume(ReturnInto(SubSeq(stack, 1, Len(stack) - 1)), rw)
    /\ UNCHANGED <<wimpl, entered, lw, reqBody, logs, ops, first, panicked,
                   sentAtPanic, handlerCaught, logFault, logCaught,
                   prevPanicked, gateVars>>

\* the k-th handler panics: the stack unwinds to the innermost Recover
\* around it, whose deferred function logs the panic and answers 500; with
\* no Recover around it the panic reaches the server, which drops the
\* connection
Unwind(k) ==
    LET r == RecoverAround(stack, k)
        a == RecoverResponse(stack, r)
    IN  IF r = 0
        THEN /\ stack' = <<>> /\ wpc' = "aborted"
             /\ UNCHANGED <<lw, rw, logs>>
        ELSE /\ lw' = a.lw
             /\ logs' = Append(logs, PanicRecord)
             /\ Resume(ReturnInto(SubSeq(stack, 1, r - 1)), a.rw)

CaughtBy(k) == IF RecoverAround(stack, k) = 0 THEN "server" ELSE "Recover"

\* h panics
HandlerPanic ==
    /\ InHandler
    /\ Unwind(Len(stack))
    /\ panicked' = TRUE
    /\ sentAtPanic' = rw.status
    /\ handlerCaught' = CaughtBy(Len(stack))
    /\ UNCHANGED <<wimpl, entered, reqBody, ops, first, logFault, logCaught,
                   prevPanicked, gateVars>>

\* LogRequest after handler.ServeHTTP(&lw, r) has returned: the record with
\* lw.status and lw.size; web.go reads what is left of r.Body into the
\* message, part_000:98-100 adds lw.body at status 400 and above
LogRequestLog ==
    /\ InLogRequest
    /\ LET msgBody == CASE wimpl = "web" -> Len(ReadAll(reqBody))
                        [] wimpl = "httplib" /\ lw.status >= 400 -> lw.body
                        [] OTHER -> 0
       IN  logs' = Append(logs, RequestRecord(lw, msgBody))
    /\ reqBody' = IF wimpl = "web" THEN Drained(reqBody) ELSE reqBody
    /\ Resume(ReturnInto(SubSeq(stack, 1, Len(stack) - 1)), rw)
    /\ UNCHANGED <<wimpl, entered, lw, ops, first, panicked, sentAtPanic,
                   handlerCaught, logFault, logCaught, prevPanicked, gateVars>>

\* the logging of LogRequest panics (the logger is the caller's: its
\* hooks, formatter and output run here)
LogRequestPanic ==
    /\ InLogRequest
    /\ Unwind(Len(stack))
    /\ logFault' = TRUE
    /\ logCaught' = CaughtBy(Len(stack))
    /\ UNCHANGED <<wimpl, entered, reqBody, ops, first, panicked, sentAtPanic,
                   handlerCaught, prevPanicked, gateVars>>

WebNext ==
    \/ WebServe
    \/ HandlerWriteHeader
    \/ HandlerWrite
    \/ HandlerReadBody
    \/ HandlerReturn
    \/ HandlerPanic
    \/ LogRequestLog
    \/ LogRequestPanic

WebSpec == WebInit /\ [][WebNext]_vars

----------------------------------------------------------------------------
(* Properties of the validation gate *)

NotSpace(c) == c # "ws"

\* the JSON values of a body, in order
Documents(b) == SelectSeq(b, NotSpace)

Streaming == impl \in {"early", "aggregate"}

Malformed(b) == \E i \in 1..Len(b) : b[i] = "junk"

AllMatch(b) ==
    \A i \in 1..Len(b) : b[i] = "ws" \/ (b[i] \in Values /\ Validate(b[i]) = "valid")

HasInvalid(b) ==
    \E i \in 1..Len(b) : b[i] \in Values /\ Validate(b[i]) = "invalid"

\* only JSON values the schema judges valid or invalid, and white space
AllJudged(b) ==
    \A i \in 1..Len(b) :
        b[i] = "ws" \/ (b[i] \in Values /\ Validate(b[i]) \in {"valid", "invalid"})

IsRejected(r) == ~r.valid

IsInvalidDocument(c) == Validate(c) = "invalid"

\* C1: when the body that was read holds only well-formed JSON documents
\* that all match the schema, the streaming gate (validate.go,
\* part_001:41-101) calls the wrapped handler exactly once, writes nothing
\* itself, and the handler reads exactly the original body from r.Body.
C1_ValidBodyForwardedUnchanged ==
    (gpc = "done" /\ Streaming /\ ~readFails /\ AllMatch(body)) =>
        /\ handlerCalls = 1
        /\ responses = 0
        /\ w.headerCalls = 1 /\ w.size = 0
        /\ handlerSaw = body

C1_Witness ==
    /\ gpc = "done" /\ Streaming /\ ~readFails /\ AllMatch(body)
    /\ Len(Documents(body)) >= 2 /\ Len(body) > Len(Documents(body))
    /\ handlerCalls = 1 /\ handlerSaw = body

\* C2 as stated: a body with a schema-invalid document is answered with
\* status 400 and the handler is not called.
C2_InvalidDocumentGets400 ==
    (gpc = "done" /\ Streaming /\ HasInvalid(body)) =>
        (handlerCalls = 0 /\ w.status = StatusBadRequest)

\* C2 amended: for a body with a schema-invalid document the handler is
\* never called and the gate sends no status but 400, or 500 when the schema
\* engine itself failed on a document the gate validated before it stopped.
C2_InvalidDocumentGets400Or500 ==
    (gpc # "idle" /\ Streaming /\ HasInvalid(body)) =>
        /\ handlerCalls = 0
        /\ \/ w.status = StatusBadRequest
           \/ w.status = StatusInternalServerError /\ engineFailed
           \/ w.status = 0 /\ gpc # "done"

C2_Witness ==
    /\ gpc = "done" /\ Streaming /\ HasInvalid(body) /\ ~readFails
    /\ w.status = StatusBadRequest /\ handlerCalls = 0
    /\ body[Len(body)] = "bad" /\ Len(Documents(body)) >= 2

\* C5 as stated: of a body of N JSON documents all N are validated, and the
\* failure report has an entry for every invalid document, in document
\* order (none when all are valid).
C5_AllDocumentsValidated ==
    (gpc = "done" /\ Streaming /\ ~readFails /\ AllJudged(body)) =>
        /\ validated = Documents(body)
        /\ [i \in 1..Len(SelectSeq(report, IsRejected)) |->
               SelectSeq(report, IsRejected)[i].doc]
             = SelectSeq(Documents(body), IsInvalidDocument)

\* C8 as stated: every request ends, with the handler called or an error
\* response completed, and a malformed body ends with status 400 and no
\* handler call (the schema engine not failing).
C8_GateTerminates ==
    (gpc = "read" /\ Streaming) ~>
        (gpc = "done" /\ (Malformed(body) /\ ~readFails /\ ~engineFailed =>
                             handlerCalls = 0 /\ w.status = StatusBadRequest))

\* C9 as stated: when schema.Validate returns an error the gate answers
\* with a 5xx status, stops at once and does not call the handler.
C9_EngineErrorIs5xx ==
    engineFailed =>
        /\ gpc = "done"
        /\ w.status >= 500
        /\ handlerCalls = 0

\* C10 as stated: every request has exactly one outcome, the handler called
\* once and nothing written by the gate, or one error response and no
\* handler call; no second error response, no validation after an error
\* response.
C10_ExactlyOneOutcome ==
    Streaming =>
        /\ responses <= 1
        /\ ~afterError
        /\ gpc = "done" =>
              \/ handlerCalls = 1 /\ responses = 0
              \/ handlerCalls = 0 /\ responses = 1 /\ w.headerCalls = 1

----------------------------------------------------------------------------
(* Properties of the logging / recovery chain *)

IsRequestRecord(r) == r.kind = "request"

RequestRecords == SelectSeq(logs, IsRequestRecord)

\* the status the client receives once the request is served
ClientStatus == rw.status

\* C3 as stated: whenever the handler panics, also after it has written a
\* status or body bytes, the client receives 500 and the panic stops at
\* Recover.
C3_PanicAlwaysGives500 ==
    panicked =>
        /\ handlerCaught = "Recover"
        /\ wpc = "served" => ClientStatus = StatusInternalServerError

\* C3 amended: a panic of the handler never passes Recover; the client
\* receives 500 when the handler had sent no status and no body bytes before
\* it panicked, and otherwise keeps the status already sent (the observer
\* then records 500 all the same); the request after a recovered panic is
\* served as the handler answers it.
C3_PanicGives500UnlessAlreadySent ==
    /\ panicked => handlerCaught = "Recover"
    /\ (wpc = "served" /\ panicked) =>
          /\ ClientStatus = IF sentAtPanic = 0 THEN StatusInternalServerError
                            ELSE sentAtPanic
          /\ lw.status = StatusInternalServerError
    /\ (wpc = "served" /\ prevPanicked /\ ~panicked) =>
          /\ ClientStatus = IF first = 0 THEN StatusOK ELSE first
          /\ Len(RequestRecords) = 1

C3_Witness ==
    /\ wpc = "served" /\ prevPanicked /\ panicked
    /\ sentAtPanic = StatusBadRequest /\ ClientStatus = StatusBadRequest
    /\ lw.status = StatusInternalServerError

\* C4 as stated: after any sequence of Write and WriteHeader calls of the
\* handler the observer's size is the number of bytes written and its status
\* is the first status explicitly set, or 200 when a Write came first.
C4_ObserverSizeAndFirstStatus ==
    (InHandler /\ ops > 0) =>
        /\ lw.size = rw.size
        /\ lw.status = first

\* C6 as stated: the request enters Recover, then LogRequest, then the
\* handler, and a fault of the logging wrapper or of the handler is caught
\* by Recover.
C6_RecoverOutsideLogging ==
    wpc \in {"running", "served", "aborted"} =>
        /\ entered = <<"Recover", "LogRequest", "h">>
        /\ panicked => handlerCaught = "Recover"
        /\ logFault => logCaught = "Recover"

\* C6 amended: the chain of RunHTTP is logging outside recovery: the request
\* enters LogRequest, then Recover, then the handler; a fault of the handler
\* is caught by Recover, a fault of the logging wrapper is not.
C6_LoggingOutsideRecover ==
    wpc \in {"running", "served", "aborted"} =>
        /\ entered = <<"LogRequest", "Recover", "h">>
        /\ panicked => handlerCaught = "Recover"
        /\ logFault => logCaught = "server" /\ wpc = "aborted"

C6_Witness ==
    /\ wpc = "aborted" /\ logFault /\ logCaught = "server"
    /\ panicked /\ handlerCaught = "Recover"
    /\ entered = <<"LogRequest", "Recover", "h">>

\* C7: every request served through the chain of RunHTTP has exactly one
\* request record from LogRequest, whether the handler returned or panicked
\* and was recovered; after a recovered panic the record has status 500.
C7_OneRequestRecord ==
    /\ Len(RequestRecords) <= 1
    /\ wpc = "served" =>
          /\ Len(RequestRecords) = 1
          /\ panicked => RequestRecords[1].status = StatusInternalServerError

C7_Witness ==
    /\ wpc = "served" /\ panicked /\ sentAtPanic = StatusOK
    /\ Len(RequestRecords) = 1
    /\ RequestRecords[1].status = StatusInternalServerError
    /\ RequestRecords[1].size > 0

====
